---------------------------- MODULE Spec2Model ----------------------------
(***************************************************************************)
(* Proposer-block layer of vms/proposervm (inner_state.go): the envelope   *)
(* codec, the decorated block (construction, signing, verification,        *)
(* accept / reject) and the state store (two caches, two prefixed stores   *)
(* over one database, and the version layer).                              *)
(*                                                                         *)
(* Byte strings are sequences of 0..255.  Widths are scaled down: an id is *)
(* IDLen bytes (32 in the program), a long is LongLen bytes (8 in the      *)
(* program), the packer's MaxSize is MaxSize bytes (1 << 18 in the         *)
(* program).  SHA-256 is replaced by a small keyed fold that is checked to *)
(* be collision-free on every byte string the model hashes                 *)
(* (HashInjective).                                                        *)
(***************************************************************************)
EXTENDS Integers, Sequences, FiniteSets, TLC

IDLen == 2
LongLen == 2
MaxSize == 64

Nil == "nil"
NilBytes == <<-1>>

-----------------------------------------------------------------------------
(* Numbers and bytes *)

RECURSIVE Pow256(_)
Pow256(w) == IF w = 0 THEN 1 ELSE 256 * Pow256(w - 1)

RECURSIVE BigEndian(_, _)
BigEndian(n, w) == IF w = 0 THEN <<>> ELSE Append(BigEndian(n \div 256, w - 1), n % 256)

RECURSIVE FromBigEndian(_)
FromBigEndian(b) ==
    IF b = <<>> THEN 0 ELSE 256 * FromBigEndian(SubSeq(b, 1, Len(b) - 1)) + b[Len(b)]

\* uint64(x) for a signed long, at LongLen bytes
ToUint64(x) == x % Pow256(LongLen)

\* a conversion that keeps the unsigned value
ToInt64Unsigned(u) == u

\* int64(u) for an unsigned long, at LongLen bytes
ToInt64(u) == IF 2 * u >= Pow256(LongLen) THEN u - Pow256(LongLen) ELSE u

RECURSIVE HashLane(_, _, _)
HashLane(b, i, acc) ==
    IF b = <<>> THEN acc
    ELSE HashLane(Tail(b), i, (acc * (29 + 2 * i) + Head(b) + i) % 251)

\* hashing.ComputeHash256Array: the digest of a byte string, IDLen bytes
ComputeHash256Array(b) == [i \in 1..IDLen |-> HashLane(b, i, 7 * i + Len(b))]

\* ids.ID{}: the zero value of an id
EmptyID == [i \in 1..IDLen |-> 0]

-----------------------------------------------------------------------------
(* Certificates and signatures *)

\* x509.Certificate{}: the empty certificate of genesis
EmptyCert == [Raw |-> <<>>, PublicKey |-> 0, SignatureAlgorithm |-> "Unknown"]

CertA == [Raw |-> <<48, 1>>, PublicKey |-> 1, SignatureAlgorithm |-> "SHA256WithRSA"]

CertB == [Raw |-> <<48, 2>>, PublicKey |-> 2, SignatureAlgorithm |-> "SHA256WithRSA"]

Certs == {EmptyCert, CertA, CertB}

\* x509.ParseCertificate on DER bytes
ParseCertificate(raw) ==
    IF \E c \in Certs \ {EmptyCert} : c.Raw = raw
    THEN [cert |-> CHOOSE c \in Certs \ {EmptyCert} : c.Raw = raw, err |-> Nil]
    ELSE [cert |-> EmptyCert, err |-> "x509: malformed certificate"]

\* crypto.Signer.Sign(rand, digest, crypto.SHA256) with private key k
SignDigest(k, rnd, digest) == <<k, rnd>> \o digest

\* x509.Certificate.CheckSignature(algo, signed, signature)
CheckSignature(cert, algo, signed, signature) ==
    IF /\ cert.PublicKey # 0
       /\ algo = "SHA256WithRSA"
       /\ Len(signature) = 2 + IDLen
       /\ signature[1] = cert.PublicKey
       /\ SubSeq(signature, 3, Len(signature)) = ComputeHash256Array(signed)
    THEN Nil ELSE "x509: verification error"

-----------------------------------------------------------------------------
(* wrappers.Packer *)

NewPacker(bytes, max) == [Bytes |-> bytes, Offset |-> 0, MaxSize |-> max, Err |-> FALSE]

PackFixedBytes(p, b) ==
    IF p.Err THEN p
    ELSE IF Len(p.Bytes) + Len(b) > p.MaxSize THEN [p EXCEPT !.Err = TRUE]
    ELSE [p EXCEPT !.Bytes = @ \o b]

PackShort(p, v) == PackFixedBytes(p, BigEndian(v, 2))

PackInt(p, v) == PackFixedBytes(p, BigEndian(v, 4))

PackLong(p, v) == PackFixedBytes(p, BigEndian(v, LongLen))

PackBytes(p, b) == PackFixedBytes(PackInt(p, Len(b)), b)

PackX509Certificate(p, cert) == PackBytes(p, cert.Raw)

UnpackFixedBytes(p, n) ==
    IF p.Err \/ p.Offset + n > Len(p.Bytes)
    THEN [p |-> [p EXCEPT !.Err = TRUE], v |-> <<>>]
    ELSE [p |-> [p EXCEPT !.Offset = @ + n],
          v |-> SubSeq(p.Bytes, p.Offset + 1, p.Offset + n)]

FromBytes(r) == [p |-> r.p, v |-> FromBigEndian(r.v)]

UnpackShort(p) == FromBytes(UnpackFixedBytes(p, 2))

UnpackInt(p) == FromBytes(UnpackFixedBytes(p, 4))

UnpackLong(p) == FromBytes(UnpackFixedBytes(p, LongLen))

UnpackBytes(p) ==
    LET body(n) == UnpackFixedBytes(n.p, n.v) IN body(UnpackInt(p))

\* a nil certificate (no error) for zero length, the parsed certificate otherwise
UnpackX509Certificate(p) ==
    LET nilCert(q) == [p |-> q, isNil |-> TRUE, v |-> EmptyCert]
        parsed(q, c) ==
            IF c.err # Nil THEN nilCert([q EXCEPT !.Err = TRUE])
            ELSE [p |-> q, isNil |-> FALSE, v |-> c.cert]
        unpacked(r) ==
            IF r.p.Err THEN nilCert(r.p)
            ELSE IF r.v = <<>> THEN nilCert(r.p)
            ELSE parsed(r.p, ParseCertificate(r.v))
    IN  unpacked(UnpackBytes(p))

-----------------------------------------------------------------------------
(* Errors *)

ErrInnerBlockNotOracle == "core snowman block does not implement snowman.OracleBlock"
ErrProBlkNotFound == "proposer block not found"
ErrProBlkBadTimestamp == "proposer block timestamp outside tolerance window"
ErrInvalidTLSKey == "invalid validator signing key"
ErrInvalidNodeID == "could not retrieve nodeID from proposer block certificate"
ErrInvalidSignature == "proposer block signature does not verify"
ErrProBlkWrongHeight == "proposer block has wrong height"
ErrProBlkFailedParsing == "could not parse proposer block"

\* fmt.Errorf("codecVersion not matching"): a fresh error value
ErrCodecVersion == "codecVersion not matching"

\* fmt.Errorf("couldn't unmarshal proposerBlockHeader: %s", err)
ErrWrapUnmarshal == "couldn't unmarshal proposerBlockHeader: could not parse proposer block"

-----------------------------------------------------------------------------
(* Envelope codec *)

BlkSubmissionTolerance == 10
proBlkVersion == 0

NewProHeader(prntID, unixTime, height, cert) ==
    [version |-> proBlkVersion, prntID |-> prntID, timestamp |-> unixTime,
     pChainHeight |-> height, valCert |-> cert, signature |-> <<>>]

ZeroHeader == [version |-> 0, prntID |-> EmptyID, timestamp |-> 0,
               pChainHeight |-> 0, valCert |-> EmptyCert, signature |-> <<>>]

\* a packer that has failed stays failed, so the last packer tells whether any
\* of the seven steps failed
marshal(mPb) ==
    LET h  == mPb.header
        p1 == PackShort(NewPacker(<<>>, MaxSize), h.version)
        p2 == PackBytes(p1, h.prntID)
        p3 == PackLong(p2, ToUint64(h.timestamp))
        p4 == PackLong(p3, h.pChainHeight)
        p5 == PackX509Certificate(p4, h.valCert)
        p6 == PackBytes(p5, h.signature)
        done(p) == IF p.Err THEN [bytes |-> NilBytes, err |-> ErrProBlkFailedParsing]
                   ELSE [bytes |-> p.Bytes, err |-> Nil]
    IN  done(PackBytes(p6, mPb.wrpdBytes))

unmarshal(b) ==
    LET bad == [mPb |-> [header |-> ZeroHeader, wrpdBytes |-> <<>>],
                err |-> ErrProBlkFailedParsing]
        wrpd(hdr, r7) ==
            IF r7.p.Err THEN bad
            ELSE [mPb |-> [header |-> hdr, wrpdBytes |-> r7.v], err |-> Nil]
        sig(hdr, r6) ==
            IF r6.p.Err THEN bad
            ELSE wrpd([hdr EXCEPT !.signature = r6.v], UnpackBytes(r6.p))
        cert(hdr, r5) ==
            IF r5.p.Err THEN bad
            ELSE sig([hdr EXCEPT !.valCert = r5.v], UnpackBytes(r5.p))
        height(hdr, r4) ==
            IF r4.p.Err THEN bad
            ELSE cert([hdr EXCEPT !.pChainHeight = r4.v], UnpackX509Certificate(r4.p))
        time(hdr, r3) ==
            IF r3.p.Err THEN bad
            ELSE height([hdr EXCEPT !.timestamp = ToInt64(r3.v)], UnpackLong(r3.p))
        prnt(hdr, r2) ==
            IF r2.p.Err THEN bad
            ELSE IF Len(r2.v) # IDLen THEN bad
            ELSE time([hdr EXCEPT !.prntID = r2.v], UnpackLong(r2.p))
        version(r1) ==
            IF r1.p.Err THEN bad
            ELSE prnt([ZeroHeader EXCEPT !.version = r1.v], UnpackBytes(r1.p))
    IN  version(UnpackShort(NewPacker(b, 0)))

-----------------------------------------------------------------------------
(* Decorated block: construction and signing *)

ZeroCore == [id |-> EmptyID, bytes |-> <<>>]

\* ProposerBlock{}
ZeroBlock == [header |-> ZeroHeader, coreBlk |-> ZeroCore, id |-> EmptyID, bytes |-> NilBytes]

getBytes(pb) ==
    LET orEmpty(res) == IF res.err # Nil THEN <<>> ELSE res.bytes
    IN  orEmpty(marshal([header |-> pb.header, wrpdBytes |-> pb.coreBlk.bytes]))

Bytes(pb) == IF pb.bytes = NilBytes THEN getBytes(pb) ELSE pb.bytes

\* a sign that hashes the envelope with the signature the header came with
signKeepsSignature(vm, pb) ==
    LET signed(msgHash) ==
            IF vm.stakingKey = 0 THEN [pb |-> pb, err |-> ErrInvalidTLSKey]
            ELSE IF vm.rand < 0 THEN [pb |-> pb, err |-> "sign: random source failed"]
            ELSE [pb |-> [pb EXCEPT !.header.signature =
                                       SignDigest(vm.stakingKey, vm.rand, msgHash)],
                  err |-> Nil]
    IN  signed(ComputeHash256Array(getBytes(pb)))

\* vm.stakingKey = 0: the private key is no crypto.Signer; vm.rand < 0: the
\* random source fails, and Sign with it
sign(vm, pb) ==
    LET signed(cleared, msgHash) ==
            IF vm.stakingKey = 0 THEN [pb |-> cleared, err |-> ErrInvalidTLSKey]
            ELSE IF vm.rand < 0 THEN [pb |-> cleared, err |-> "sign: random source failed"]
            ELSE [pb |-> [pb EXCEPT !.header.signature =
                                       SignDigest(vm.stakingKey, vm.rand, msgHash)],
                  err |-> Nil]
        hashed(cleared) == signed(cleared, ComputeHash256Array(getBytes(cleared)))
    IN  hashed([pb EXCEPT !.header.signature = <<>>])

NewProBlock(vm, hdr, sb, bytes, signBlk) ==
    LET res == [header |-> hdr, coreBlk |-> sb, id |-> EmptyID, bytes |-> bytes]
        withID(r) == [blk |-> [r EXCEPT !.id = ComputeHash256Array(r.bytes)], err |-> Nil]
        afterSign(s) ==
            IF s.err # Nil THEN [blk |-> ZeroBlock, err |-> s.err]
            ELSE IF bytes = NilBytes THEN withID([s.pb EXCEPT !.bytes = Bytes(s.pb)])
            ELSE withID(s.pb)
    IN  afterSign(IF signBlk THEN sign(vm, res) ELSE [pb |-> res, err |-> Nil])

-----------------------------------------------------------------------------
(* Inner blocks and the blocks the operations are called with *)

BigInnerLen == MaxSize

CoreID(k) == [i \in 1..IDLen |-> k]

core1 == [id |-> CoreID(201), bytes |-> <<11>>]
core2 == [id |-> CoreID(202), bytes |-> <<12>>]
\* an inner block so long that the envelope exceeds the packer's MaxSize
coreBig == [id |-> CoreID(203), bytes |-> [i \in 1..BigInnerLen |-> 0]]

Cores == {core1, core2, coreBig}

\* vm.ChainVM.ParseBlock: the inner VM parses the bytes of its own blocks
ParseBlock(b) ==
    IF \E c \in Cores : c.bytes = b
    THEN [blk |-> CHOOSE c \in Cores : c.bytes = b, err |-> Nil]
    ELSE [blk |-> ZeroCore, err |-> "inner vm: cannot parse block"]

\* a VM whose staking certificate is CertA with its private key
vmA == [stakingKey |-> 1, rand |-> 0]

\* a block without known parent
blkP == NewProBlock(vmA, NewProHeader(EmptyID, 1000, 7, CertA), core1, NilBytes, TRUE).blk
\* a child of blkP whose envelope does not fit: getBytes swallows the error
blkBig == NewProBlock(vmA, NewProHeader(blkP.id, 1005, 7, CertA), coreBig, NilBytes, FALSE).blk
\* a child of blkBig, around the same inner block as blkP
blkC == NewProBlock(vmA, NewProHeader(blkBig.id, 1005, 7, CertA), core1, NilBytes, TRUE).blk

StoreBlks == {blkP, blkC, blkBig}

-----------------------------------------------------------------------------
(* State *)

VARIABLES
    knownProBlocks,  \* innerState.knownProBlocks: id -> block
    wrpdToProID,     \* innerState.wrpdToProID: inner id -> id
    db,              \* the database handed to init: [prefix, key] -> bytes
    baseDB,          \* innerState.baseDB: the version layer's uncommitted writes
    committed,       \* history: the blocks whose commitBlk returned nil
    status,          \* the inner blocks' Status(), for the inner blocks that are followed
    ret              \* the last call: its arguments, what it returned, what it read

vars == <<knownProBlocks, wrpdToProID, db, baseDB, committed, status, ret>>

blockPrefix == "block"
wrpdToProIDPrefix == "wrpdToProID"

EmptyMap == [x \in {} |-> 0]

MapPut(f, k, v) == [x \in (DOMAIN f) \cup {k} |-> IF x = k THEN v ELSE f[x]]

MapDelete(f, k) == [x \in (DOMAIN f) \ {k} |-> f[x]]

\* the state of innerState and of the database below it, as one value
State == [known |-> knownProBlocks, inv |-> wrpdToProID, db |-> db, mem |-> baseDB]

DBKey(prefix, key) == [prefix |-> prefix, key |-> key]

\* prefixdb.Database.Put on a prefixdb made over the database itself
PrefixPut(S, prefix, key, value) == [S EXCEPT !.db = MapPut(@, DBKey(prefix, key), value)]

PrefixHas(S, prefix, key) == DBKey(prefix, key) \in DOMAIN S.db

PrefixGet(S, prefix, key) == S.db[DBKey(prefix, key)]

\* versiondb.Database.Abort: drop the uncommitted writes
Abort(S) == [S EXCEPT !.mem = EmptyMap]

\* versiondb.Database.CommitBatch: a batch of the uncommitted writes
CommitBatch(S) == S.mem

\* database.Batch.Write: the batch's writes reach the database together
BatchWrite(S, batch) ==
    [S EXCEPT !.db = [k \in (DOMAIN @) \cup (DOMAIN batch) |->
                          IF k \in DOMAIN batch THEN batch[k] ELSE @[k]]]

-----------------------------------------------------------------------------
(* State store *)

\* a cacheProBlk that keeps an inverse entry that is already there
cacheProBlkKeepInverse(S, blk) ==
    [S EXCEPT !.known = MapPut(@, blk.id, blk),
              !.inv = IF blk.coreBlk.id \in DOMAIN @ THEN @
                      ELSE MapPut(@, blk.coreBlk.id, blk.id)]

cacheProBlk(S, blk) ==
    [S EXCEPT !.known = MapPut(@, blk.id, blk),
              !.inv = MapPut(@, blk.coreBlk.id, blk.id)]

\* an eviction that also removes the block from the primary store
wipeFromCacheAndStore(S, id) ==
    IF id \in DOMAIN S.known
    THEN [S EXCEPT !.inv = MapDelete(@, S.known[id].coreBlk.id),
                   !.known = MapDelete(@, id),
                   !.db = MapDelete(@, DBKey(blockPrefix, id))]
    ELSE S

wipeFromCacheProBlk(S, id) ==
    IF id \in DOMAIN S.known
    THEN [S EXCEPT !.inv = MapDelete(@, S.known[id].coreBlk.id),
                   !.known = MapDelete(@, id)]
    ELSE S

\* fault names the database call that fails, "none" when none does
Faults == {"none", "proBlkDB.Put", "wrpdToProIDDB.Put", "CommitBatch", "batch.Write"}

commitBlk(S, blk, fault) ==
    LET dberr  == "database: write failed"
        wrpdID == blk.coreBlk.id
        write(S2, batch) ==
            IF fault = "batch.Write" THEN [S |-> Abort(S2), err |-> dberr]
            ELSE [S |-> Abort(BatchWrite(S2, batch)), err |-> Nil]
        commit(S2) ==
            IF fault = "CommitBatch"
            THEN [S |-> Abort(wipeFromCacheProBlk(S2, blk.id)), err |-> dberr]
            ELSE write(S2, CommitBatch(S2))
        putWrpd(S1, value) ==
            IF fault = "wrpdToProIDDB.Put"
            THEN [S |-> Abort(wipeFromCacheProBlk(S1, blk.id)), err |-> dberr]
            ELSE commit(PrefixPut(S1, wrpdToProIDPrefix, wrpdID, value))
        putBlk(S1) ==
            putWrpd(S1, IF wrpdID \in DOMAIN S1.inv THEN S1.inv[wrpdID] ELSE EmptyID)
    IN  IF fault = "proBlkDB.Put"
        THEN [S |-> Abort(wipeFromCacheProBlk(S, blk.id)), err |-> dberr]
        ELSE putBlk(PrefixPut(S, blockPrefix, blk.id, blk.bytes))

getProBlock(S, id) ==
    LET miss(e) == [S |-> S, blk |-> ZeroBlock, isNil |-> TRUE, err |-> e,
                    reads |-> {blockPrefix}]
        cached(proBlk) == [S |-> cacheProBlk(S, proBlk), blk |-> proBlk, isNil |-> FALSE,
                           err |-> Nil, reads |-> {blockPrefix}]
        parsed(proBytes, hdr, sb) ==
            IF sb.err # Nil THEN miss(sb.err)
            ELSE cached(NewProBlock(vmA, hdr, sb.blk, proBytes, FALSE).blk)
        unmarshalled(proBytes, u) ==
            IF u.err # Nil THEN miss(ErrWrapUnmarshal)
            ELSE parsed(proBytes, u.mPb.header, ParseBlock(u.mPb.wrpdBytes))
        got(proBytes) == unmarshalled(proBytes, unmarshal(proBytes))
    IN  IF id \in DOMAIN S.known
        THEN [S |-> S, blk |-> S.known[id], isNil |-> FALSE, err |-> Nil, reads |-> {}]
        ELSE IF ~PrefixHas(S, blockPrefix, id) THEN miss(ErrProBlkNotFound)
        ELSE got(PrefixGet(S, blockPrefix, id))

\* copy(proID[:], b): the first IDLen bytes of b over a zero id
CopyID(b) == [i \in 1..IDLen |-> IF i <= Len(b) THEN b[i] ELSE 0]

getBlockFromWrappedBlkID(S, wrappedID) ==
    LET alsoRead(r) == [r EXCEPT !.reads = @ \cup {wrpdToProIDPrefix}]
    IN  IF wrappedID \in DOMAIN S.inv
        THEN IF S.inv[wrappedID] \in DOMAIN S.known
             THEN [S |-> S, blk |-> S.known[S.inv[wrappedID]], isNil |-> FALSE,
                   err |-> Nil, reads |-> {}]
             ELSE [S |-> S, blk |-> ZeroBlock, isNil |-> TRUE, err |-> Nil, reads |-> {}]
        ELSE IF ~PrefixHas(S, wrpdToProIDPrefix, wrappedID)
        THEN [S |-> S, blk |-> ZeroBlock, isNil |-> TRUE, err |-> ErrProBlkNotFound,
              reads |-> {wrpdToProIDPrefix}]
        ELSE alsoRead(getProBlock(S, CopyID(PrefixGet(S, wrpdToProIDPrefix, wrappedID))))

wipeCache(S) == [S EXCEPT !.known = EmptyMap, !.inv = EmptyMap]

\* choices.Status of an inner block
Processing == "Processing"
Accepted == "Accepted"
Rejected == "Rejected"

\* coreBlk.Accept(): when it returns nil the inner block's Status() is Accepted.
\* st holds the statuses of the inner blocks that are followed.
coreAccept(st, id, innerErr) ==
    IF innerErr = Nil /\ id \in DOMAIN st THEN [st EXCEPT ![id] = Accepted] ELSE st

\* coreBlk.Reject(): when it returns nil the inner block's Status() is Rejected
coreReject(st, id, innerErr) ==
    IF innerErr = Nil /\ id \in DOMAIN st THEN [st EXCEPT ![id] = Rejected] ELSE st

\* ProposerBlock.Status: the status of the inner block
Status(st, pb) == st[pb.coreBlk.id]

\* an Accept that evicts the parent whatever the inner block answers
AcceptEvictsOnError(S, pb, innerErr) ==
    [S |-> wipeFromCacheProBlk(S, pb.header.prntID), err |-> innerErr]

\* a Reject that evicts the block whatever the inner block answers
RejectEvictsOnError(S, pb, innerErr) ==
    [S |-> wipeFromCacheProBlk(S, pb.id), err |-> innerErr]

\* an Accept that evicts the accepted block instead of its parent
AcceptEvictsSelf(S, pb, innerErr) ==
    IF innerErr = Nil
    THEN [S |-> wipeFromCacheProBlk(S, pb.id), err |-> innerErr]
    ELSE [S |-> S, err |-> innerErr]

\* ProposerBlock.Accept; innerErr is what coreBlk.Accept() returns
Accept(S, pb, innerErr) ==
    IF innerErr = Nil
    THEN [S |-> wipeFromCacheProBlk(S, pb.header.prntID), err |-> innerErr]
    ELSE [S |-> S, err |-> innerErr]

\* ProposerBlock.Reject; innerErr is what coreBlk.Reject() returns
Reject(S, pb, innerErr) ==
    IF innerErr = Nil
    THEN [S |-> wipeFromCacheProBlk(S, pb.id), err |-> innerErr]
    ELSE [S |-> S, err |-> innerErr]

\* a Parent that answers with a missing.Block whenever the parent is not cached
ParentFromCacheOnly(S, pb) ==
    IF pb.header.prntID \in DOMAIN S.known
    THEN [S |-> S, blk |-> S.known[pb.header.prntID], missing |-> FALSE,
          BlkID |-> pb.header.prntID]
    ELSE [S |-> S, blk |-> ZeroBlock, missing |-> TRUE, BlkID |-> pb.header.prntID]

\* ProposerBlock.Parent: the parent from the state store, and a missing.Block of
\* the parent's id when getProBlock fails.  BlkID is the ID() of what is returned.
Parent(S, pb) ==
    LET result(r) ==
            IF r.err = Nil
            THEN [S |-> r.S, blk |-> r.blk, missing |-> FALSE, BlkID |-> r.blk.id]
            ELSE [S |-> r.S, blk |-> ZeroBlock, missing |-> TRUE,
                  BlkID |-> pb.header.prntID]
    IN  result(getProBlock(S, pb.header.prntID))

-----------------------------------------------------------------------------
(* Verification *)

\* the checks of Verify, in the order of the code
Checks == <<"version", "coreBlk.Verify", "parent", "heightParent", "heightCurrent",
            "timestampParent", "nodeID", "windowStart", "tolerance", "signature">>

\* time.Unix(t, 0).Before(u), in seconds
Before(t, u) == t < u

\* an After that also holds at u itself
AfterOrAt(t, u) == t >= u

\* time.Unix(t, 0).After(u), in seconds
After(t, u) == t > u

\* a Verify that derives the node id before it looks at heights and timestamps
VerifyNodeIDFirst(S, pb, env) ==
    LET out(S1, e, n) == [S |-> S1, err |-> e, trace |-> SubSeq(Checks, 1, n)]
        signature(S1, signedBytes) ==
            IF CheckSignature(pb.header.valCert, pb.header.valCert.SignatureAlgorithm,
                              signedBytes, pb.header.signature) # Nil
            THEN out(S1, ErrInvalidSignature, 10)
            ELSE out(S1, Nil, 10)
        parent(p) ==
            IF p.err # Nil THEN out(p.S, ErrProBlkNotFound, 3)
            ELSE IF ~env.nodeIDOk THEN out(p.S, ErrInvalidNodeID, 7)
            ELSE IF pb.header.pChainHeight < p.blk.header.pChainHeight
            THEN out(p.S, ErrProBlkWrongHeight, 4)
            ELSE IF pb.header.pChainHeight > env.pChainHeight
            THEN out(p.S, ErrProBlkWrongHeight, 5)
            ELSE IF pb.header.timestamp < p.blk.header.timestamp
            THEN out(p.S, ErrProBlkBadTimestamp, 6)
            ELSE IF Before(pb.header.timestamp, p.blk.header.timestamp + env.delay)
            THEN out(p.S, ErrProBlkBadTimestamp, 8)
            ELSE IF After(pb.header.timestamp, env.now + BlkSubmissionTolerance)
            THEN out(p.S, ErrProBlkBadTimestamp, 9)
            ELSE signature(p.S, getBytes([pb EXCEPT !.header.signature = <<>>,
                                                    !.bytes = <<>>]))
    IN  IF pb.header.version # proBlkVersion THEN out(S, ErrCodecVersion, 1)
        ELSE IF env.innerErr # Nil THEN out(S, env.innerErr, 2)
        ELSE parent(getProBlock(S, pb.header.prntID))

\* ProposerBlock.Verify.  env gives what the calls out of the layer return:
\* coreBlk.Verify(), vm.pChainHeight(), vm.now() (seconds), vm.BlkSubmissionDelay
\* (seconds) and whether ids.ToShortID yields a node id.  trace lists the checks
\* that were evaluated.
Verify(S, pb, env) ==
    LET out(S1, e, n) == [S |-> S1, err |-> e, trace |-> SubSeq(Checks, 1, n)]
        signature(S1, signedBytes) ==
            IF CheckSignature(pb.header.valCert, pb.header.valCert.SignatureAlgorithm,
                              signedBytes, pb.header.signature) # Nil
            THEN out(S1, ErrInvalidSignature, 10)
            ELSE out(S1, Nil, 10)
        window(S1, prntBlk, blkWinStart) ==
            IF Before(pb.header.timestamp, blkWinStart)
            THEN out(S1, ErrProBlkBadTimestamp, 8)
            ELSE IF After(pb.header.timestamp, env.now + BlkSubmissionTolerance)
            THEN out(S1, ErrProBlkBadTimestamp, 9)
            ELSE signature(S1, getBytes([pb EXCEPT !.header.signature = <<>>,
                                                   !.bytes = <<>>]))
        parent(p) ==
            IF p.err # Nil THEN out(p.S, ErrProBlkNotFound, 3)
            ELSE IF pb.header.pChainHeight < p.blk.header.pChainHeight
            THEN out(p.S, ErrProBlkWrongHeight, 4)
            ELSE IF pb.header.pChainHeight > env.pChainHeight
            THEN out(p.S, ErrProBlkWrongHeight, 5)
            ELSE IF pb.header.timestamp < p.blk.header.timestamp
            THEN out(p.S, ErrProBlkBadTimestamp, 6)
            ELSE IF ~env.nodeIDOk THEN out(p.S, ErrInvalidNodeID, 7)
            ELSE window(p.S, p.blk, p.blk.header.timestamp + env.delay)
    IN  IF pb.header.version # proBlkVersion THEN out(S, ErrCodecVersion, 1)
        ELSE IF env.innerErr # Nil THEN out(S, env.innerErr, 2)
        ELSE parent(getProBlock(S, pb.header.prntID))

-----------------------------------------------------------------------------
(* The calls on the state store, one action each *)

NoPre == [inBlkDB |-> FALSE, inWrpdDB |-> FALSE, cached |-> FALSE]

NoEnv == [innerErr |-> Nil, pChainHeight |-> 0, now |-> 0, delay |-> 0, nodeIDOk |-> TRUE]

NoArgs == [hdr |-> ZeroHeader, bytes |-> NilBytes, signBlk |-> FALSE]

NoRet == [op |-> "init", blk |-> ZeroBlock, id |-> EmptyID, fault |-> "none", err |-> Nil,
          res |-> ZeroBlock, isNil |-> TRUE, reads |-> {}, pre |-> NoPre,
          env |-> NoEnv, trace |-> <<>>, args |-> NoArgs]

Install(S) ==
    /\ knownProBlocks' = S.known
    /\ wrpdToProID' = S.inv
    /\ db' = S.db
    /\ baseDB' = S.mem

StoreIDs == {b.id : b \in StoreBlks} \cup {EmptyID}

WrappedIDs == {b.coreBlk.id : b \in StoreBlks}

InnerErrs == {Nil, "inner vm: failed"}

\* newState, then init
Init ==
    /\ knownProBlocks = EmptyMap
    /\ wrpdToProID = EmptyMap
    /\ db = EmptyMap
    /\ baseDB = EmptyMap
    /\ committed = {}
    /\ status = EmptyMap
    /\ ret = NoRet

CacheProBlk(b) ==
    /\ Install(cacheProBlk(State, b))
    /\ ret' = [NoRet EXCEPT !.op = "cacheProBlk", !.blk = b]
    /\ UNCHANGED <<committed, status>>

WipeFromCacheProBlk(id) ==
    /\ Install(wipeFromCacheProBlk(State, id))
    /\ ret' = [NoRet EXCEPT !.op = "wipeFromCacheProBlk", !.id = id]
    /\ UNCHANGED <<committed, status>>

CommitBlk(b, fault) ==
    \E r \in {commitBlk(State, b, fault)} :
        /\ Install(r.S)
        /\ committed' = IF r.err = Nil THEN committed \cup {b} ELSE committed
        /\ UNCHANGED status
        /\ ret' = [NoRet EXCEPT !.op = "commitBlk", !.blk = b, !.fault = fault,
                                !.err = r.err,
                                !.pre = [inBlkDB |-> PrefixHas(State, blockPrefix, b.id),
                                         inWrpdDB |-> PrefixHas(State, wrpdToProIDPrefix,
                                                                b.coreBlk.id),
                                         cached |-> b.id \in DOMAIN knownProBlocks]]

GetProBlock(id) ==
    \E r \in {getProBlock(State, id)} :
        /\ Install(r.S)
        /\ ret' = [NoRet EXCEPT !.op = "getProBlock", !.id = id, !.err = r.err,
                                !.res = r.blk, !.isNil = r.isNil, !.reads = r.reads]
        /\ UNCHANGED <<committed, status>>

GetBlockFromWrappedBlkID(w) ==
    \E r \in {getBlockFromWrappedBlkID(State, w)} :
        /\ Install(r.S)
        /\ ret' = [NoRet EXCEPT !.op = "getBlockFromWrappedBlkID", !.id = w, !.err = r.err,
                                !.res = r.blk, !.isNil = r.isNil, !.reads = r.reads]
        /\ UNCHANGED <<committed, status>>

WipeCache ==
    /\ Install(wipeCache(State))
    /\ ret' = [NoRet EXCEPT !.op = "wipeCache"]
    /\ UNCHANGED <<committed, status>>

AcceptBlk(b, innerErr) ==
    \E r \in {Accept(State, b, innerErr)} :
        /\ Install(r.S)
        /\ ret' = [NoRet EXCEPT !.op = "Accept", !.blk = b, !.err = r.err,
                                !.env = [NoEnv EXCEPT !.innerErr = innerErr],
                                !.pre = [NoPre EXCEPT !.cached =
                                            b.header.prntID \in DOMAIN knownProBlocks]]
        /\ status' = coreAccept(status, b.coreBlk.id, innerErr)
        /\ UNCHANGED committed

RejectBlk(b, innerErr) ==
    \E r \in {Reject(State, b, innerErr)} :
        /\ Install(r.S)
        /\ ret' = [NoRet EXCEPT !.op = "Reject", !.blk = b, !.err = r.err,
                                !.env = [NoEnv EXCEPT !.innerErr = innerErr],
                                !.pre = [NoPre EXCEPT !.cached =
                                            b.id \in DOMAIN knownProBlocks]]
        /\ status' = coreReject(status, b.coreBlk.id, innerErr)
        /\ UNCHANGED committed

Next ==
    \/ \E b \in StoreBlks : CacheProBlk(b)
    \/ \E id \in StoreIDs : WipeFromCacheProBlk(id)
    \/ \E b \in StoreBlks, f \in Faults : CommitBlk(b, f)
    \/ \E id \in StoreIDs : GetProBlock(id)
    \/ \E w \in WrappedIDs : GetBlockFromWrappedBlkID(w)
    \/ WipeCache
    \/ \E b \in StoreBlks, e \in InnerErrs : AcceptBlk(b, e)
    \/ \E b \in StoreBlks, e \in InnerErrs : RejectBlk(b, e)

Spec == Init /\ [][Next]_vars

-----------------------------------------------------------------------------
(* Verification of received blocks *)

InnerErrVerify == "inner vm: block does not verify"

\* the children that are verified: each field takes values on both sides of its
\* check; the blocks of another version vary in what the later checks read
VerifyHdrs ==
    {[version |-> proBlkVersion, prntID |-> p, timestamp |-> t, pChainHeight |-> h,
      valCert |-> CertA, signature |-> <<>>] :
        p \in {blkP.id, EmptyID}, t \in {999, 1000, 1005, 1011}, h \in {6, 7, 8}}
    \cup
    {[version |-> 1, prntID |-> p, timestamp |-> 1005, pChainHeight |-> 7,
      valCert |-> CertA, signature |-> <<>>] : p \in {blkP.id, EmptyID}}

\* signed by the VM's staking key when sgn, left unsigned otherwise
VerifyBlks ==
    {NewProBlock(vmA, hdr, core2, NilBytes, sgn).blk : hdr \in VerifyHdrs, sgn \in BOOLEAN}

Envs ==
    [innerErr : {Nil, InnerErrVerify}, pChainHeight : {7}, now : {1000, 1001},
     delay : {0, 5}, nodeIDOk : BOOLEAN]

VerifyBlk(b, env) ==
    \E r \in {Verify(State, b, env)} :
        /\ Install(r.S)
        /\ ret' = [NoRet EXCEPT !.op = "Verify", !.blk = b, !.env = env, !.err = r.err,
                                !.trace = r.trace]
        /\ UNCHANGED <<committed, status>>

NextVerify ==
    \/ CacheProBlk(blkP)
    \/ CommitBlk(blkP, "none")
    \/ \E b \in VerifyBlks, env \in Envs : VerifyBlk(b, env)

SpecVerify == Init /\ [][NextVerify]_vars

-----------------------------------------------------------------------------
(* The state store under every call of the layer *)

\* what the calls out of the layer answer when a stored block is verified
LifeEnvs ==
    [innerErr : {Nil, InnerErrVerify}, pChainHeight : {7}, now : {1000}, delay : {0},
     nodeIDOk : {TRUE}]

\* Parent(): res is the block returned, isNil tells a missing.Block, id is its ID()
ParentBlk(b) ==
    \E r \in {Parent(State, b)} :
        /\ Install(r.S)
        /\ ret' = [NoRet EXCEPT !.op = "Parent", !.blk = b, !.res = r.blk,
                                !.isNil = r.missing, !.id = r.BlkID,
                                !.pre = [NoPre EXCEPT
                                            !.inBlkDB = PrefixHas(State, blockPrefix,
                                                                  b.header.prntID),
                                            !.cached = b.header.prntID
                                                          \in DOMAIN knownProBlocks]]
        /\ UNCHANGED <<committed, status>>

NextLife ==
    \/ Next
    \/ \E b \in StoreBlks, env \in LifeEnvs : VerifyBlk(b, env)
    \/ \E b \in StoreBlks : ParentBlk(b)

SpecLife == Init /\ [][NextLife]_vars

-----------------------------------------------------------------------------
(* The decisions on blocks, with the inner blocks' statuses followed *)

CoreIDs == {b.coreBlk.id : b \in StoreBlks}

\* newState, then init; no inner block is decided
InitStatus ==
    /\ knownProBlocks = EmptyMap
    /\ wrpdToProID = EmptyMap
    /\ db = EmptyMap
    /\ baseDB = EmptyMap
    /\ committed = {}
    /\ status = [c \in CoreIDs |-> Processing]
    /\ ret = NoRet

NextStatus ==
    \/ \E b \in StoreBlks : CacheProBlk(b)
    \/ \E id \in StoreIDs : WipeFromCacheProBlk(id)
    \/ \E b \in StoreBlks : CommitBlk(b, "none")
    \/ \E id \in StoreIDs : GetProBlock(id)
    \/ \E b \in StoreBlks, e \in InnerErrs : AcceptBlk(b, e)
    \/ \E b \in StoreBlks, e \in InnerErrs : RejectBlk(b, e)

SpecStatus == InitStatus /\ [][NextStatus]_vars

-----------------------------------------------------------------------------
(* The two caches *)

\* a second inner block so long that the envelope exceeds the packer's MaxSize
coreBig2 == [id |-> CoreID(204), bytes |-> [i \in 1..BigInnerLen |-> 1]]

\* another block whose envelope does not fit
blkBig2 == NewProBlock(vmA, NewProHeader(blkP.id, 1005, 7, CertA), coreBig2, NilBytes, FALSE).blk

\* two blocks with one id (the envelope of neither fits) and a block of its own id
CacheBlks == {blkP, blkBig, blkBig2}

CacheIDs == {b.id : b \in CacheBlks}

CacheWrappedIDs == {b.coreBlk.id : b \in CacheBlks}

CacheFaults == {"none", "CommitBatch"}

NextCache ==
    \/ \E b \in CacheBlks : CacheProBlk(b)
    \/ \E id \in CacheIDs : WipeFromCacheProBlk(id)
    \/ WipeCache
    \/ \E b \in CacheBlks, f \in CacheFaults : CommitBlk(b, f)
    \/ \E id \in CacheIDs : GetProBlock(id)
    \/ \E w \in CacheWrappedIDs : GetBlockFromWrappedBlkID(w)
    \/ \E b \in CacheBlks, e \in InnerErrs : AcceptBlk(b, e)
    \/ \E b \in CacheBlks, e \in InnerErrs : RejectBlk(b, e)

SpecCache == Init /\ [][NextCache]_vars

\* with blkC there are also two blocks of different ids around one inner block
EvictBlks == StoreBlks \cup {blkBig2}

EvictIDs == {b.id : b \in EvictBlks}

EvictWrappedIDs == {b.coreBlk.id : b \in EvictBlks}

\* cacheProBlk, wipeFromCacheProBlk and the lookup by inner id, nothing else
NextEvict ==
    \/ \E b \in EvictBlks : CacheProBlk(b)
    \/ \E id \in EvictIDs : WipeFromCacheProBlk(id)
    \/ \E w \in EvictWrappedIDs : GetBlockFromWrappedBlkID(w)

SpecEvict == Init /\ [][NextEvict]_vars

-----------------------------------------------------------------------------
(* Construction of blocks *)

VMs == [stakingKey : {0, 1}, rand : {-1, 0, 1}]

\* fresh headers, and the headers of blocks that were signed before
NewHdrs ==
    {NewProHeader(p, t, h, c) :
        p \in {EmptyID, blkP.id}, t \in {-1, 1005}, h \in {0, 7}, c \in {EmptyCert, CertA}}
    \cup {blkP.header, blkC.header}

\* NewProBlock with bytes absent, or with the envelope of hdr and sb as bytes
NewProBlk(vm, hdr, sb, given, signBlk) ==
    LET bytes == IF given THEN getBytes([ZeroBlock EXCEPT !.header = hdr, !.coreBlk = sb])
                 ELSE NilBytes
        r == NewProBlock(vm, hdr, sb, bytes, signBlk)
    IN  /\ ret' = [NoRet EXCEPT !.op = "NewProBlock", !.blk = r.blk, !.err = r.err,
                                !.args = [hdr |-> hdr, bytes |-> bytes, signBlk |-> signBlk]]
        /\ UNCHANGED <<knownProBlocks, wrpdToProID, db, baseDB, committed, status>>

\* NewProBlock as getProBlock calls it: header and inner block decoded from bytes
NewProBlkFromStore(bytes) ==
    LET u == unmarshal(bytes)
        sb == ParseBlock(u.mPb.wrpdBytes)
        r == NewProBlock(vmA, u.mPb.header, sb.blk, bytes, FALSE)
    IN  /\ u.err = Nil
        /\ sb.err = Nil
        /\ ret' = [NoRet EXCEPT !.op = "NewProBlock", !.blk = r.blk, !.err = r.err,
                                !.args = [hdr |-> u.mPb.header, bytes |-> bytes,
                                          signBlk |-> FALSE]]
        /\ UNCHANGED <<knownProBlocks, wrpdToProID, db, baseDB, committed, status>>

NextNew ==
    \/ \E vm \in VMs, hdr \in NewHdrs, sb \in {core1, coreBig}, given \in BOOLEAN,
          signBlk \in BOOLEAN : NewProBlk(vm, hdr, sb, given, signBlk)
    \/ \E b \in StoreBlks : NewProBlkFromStore(b.bytes)

SpecNew == Init /\ [][NextNew]_vars

-----------------------------------------------------------------------------
(* Signing, then verification *)

\* VMs with the staking key of CertA, over two states of the random source
SignVMs == [stakingKey : {1}, rand : {0, 1}]

\* children of blkP that pass every check before the signature; a header may
\* carry the signature of an earlier signing, or the certificate of another key
SignHdrs ==
    {[version |-> proBlkVersion, prntID |-> blkP.id, timestamp |-> t, pChainHeight |-> 7,
      valCert |-> c, signature |-> sg] :
        t \in {1000, 1005}, c \in {CertA, CertB}, sg \in {<<>>, blkP.header.signature}}

SignedBlks ==
    {NewProBlock(vm, hdr, sb, NilBytes, TRUE).blk :
        vm \in SignVMs, hdr \in SignHdrs, sb \in {core1, core2}}

Tampers == {"none", "timestamp", "pChainHeight", "coreBlk"}

\* a signed block as it is received, one part of its content changed on the way
Tamper(blk, how) ==
    CASE how = "timestamp"    -> [blk EXCEPT !.header.timestamp = @ + 1]
      [] how = "pChainHeight" -> [blk EXCEPT !.header.pChainHeight = @ + 1]
      [] how = "coreBlk"      -> [blk EXCEPT !.coreBlk = IF @ = core1 THEN core2 ELSE core1]
      [] OTHER                -> blk

ReceivedBlks == {Tamper(blk, how) : blk \in SignedBlks, how \in Tampers}

SignEnvs ==
    [innerErr : {Nil, InnerErrVerify}, pChainHeight : {8}, now : {1000}, delay : {0},
     nodeIDOk : BOOLEAN]

NextSign ==
    \/ CacheProBlk(blkP)
    \/ \E blk \in ReceivedBlks, env \in SignEnvs : VerifyBlk(blk, env)

SpecSign == Init /\ [][NextSign]_vars

-----------------------------------------------------------------------------
(* The envelope codec on its own *)

\* the least int64, at LongLen bytes
MinInt64 == 0 - (Pow256(LongLen) \div 2)

\* the greatest uint64, at LongLen bytes
MaxUint64 == Pow256(LongLen) - 1

\* well-formed headers: the genesis header is among them
CodecHdrs ==
    [version : {0, 1}, prntID : {EmptyID, blkP.id}, timestamp : {MinInt64, -1, 0, 1005},
     pChainHeight : {0, MaxUint64}, valCert : Certs,
     signature : {<<>>, blkP.header.signature}]

\* the pairs that are encoded: the last inner bytes do not fit the envelope
CodecInputs == [header : CodecHdrs, wrpdBytes : {<<>>, core1.bytes, coreBig.bytes}]

\* mPb.marshal(): blk.bytes of the record holds the envelope
Marshal(mPb) ==
    LET m == marshal(mPb)
    IN  /\ ret' = [NoRet EXCEPT !.op = "marshal", !.err = m.err,
                                !.blk = [ZeroBlock EXCEPT !.bytes = m.bytes],
                                !.args = [hdr |-> mPb.header, bytes |-> mPb.wrpdBytes,
                                          signBlk |-> FALSE]]
        /\ UNCHANGED <<knownProBlocks, wrpdToProID, db, baseDB, committed, status>>

\* mPb.unmarshal(b) on the envelope of the last marshal: res of the record holds
\* the decoded header and, as bytes, the decoded inner bytes
Unmarshal ==
    /\ ret.op = "marshal"
    /\ ret.err = Nil
    /\ \E u \in {unmarshal(ret.blk.bytes)} :
          ret' = [ret EXCEPT !.op = "unmarshal", !.err = u.err,
                             !.res = [ZeroBlock EXCEPT !.header = u.mPb.header,
                                                       !.bytes = u.mPb.wrpdBytes]]
    /\ UNCHANGED <<knownProBlocks, wrpdToProID, db, baseDB, committed, status>>

NextCodec ==
    \/ \E mPb \in CodecInputs : Marshal(mPb)
    \/ Unmarshal

SpecCodec == Init /\ [][NextCodec]_vars

-----------------------------------------------------------------------------
(* The stand-in for SHA-256 on the blocks of the three specifications *)

HashedBytes == {x.bytes : x \in StoreBlks \cup VerifyBlks}

\* no two of these byte strings share a digest, and none has the zero id
HashInjective ==
    /\ \A x, y \in HashedBytes :
          ComputeHash256Array(x) = ComputeHash256Array(y) => x = y
    /\ \A x \in HashedBytes : ComputeHash256Array(x) # EmptyID

-----------------------------------------------------------------------------
(* Properties of the state store, under Spec *)

\* the block of the last call
lastBlk == ret.blk

\* blk.bytes is the envelope of blk.header and of the bytes of blk.coreBlk
IsEnvelope(blk) ==
    LET same(m) == m.err = Nil /\ m.bytes = blk.bytes
    IN  same(marshal([header |-> blk.header, wrpdBytes |-> blk.coreBlk.bytes]))

\* a lookup that answers blk out of the caches alone
FromCache(r, blk) == r.err = Nil /\ ~r.isNil /\ r.blk = blk /\ r.reads = {}

\* a lookup that answers the block stored under id out of the primary store
FromStore(r, id) == r.err = Nil /\ ~r.isNil /\ r.blk.id = id /\ blockPrefix \in r.reads

\* neither cache holds the block id
NotCached(id) ==
    /\ id \notin DOMAIN knownProBlocks
    /\ \A w \in DOMAIN wrpdToProID : wrpdToProID[w] # id

\* C1: when commitBlk returns an error for a block whose two records were absent
\* before the call, the primary store has no entry under b.id and the inverse
\* store has none under b.coreBlk.id, whichever database call failed.
CommitAtomicity ==
    (ret.op = "commitBlk" /\ ret.err # Nil /\ ~ret.pre.inBlkDB /\ ~ret.pre.inWrpdDB)
        => /\ ~PrefixHas(State, blockPrefix, lastBlk.id)
           /\ ~PrefixHas(State, wrpdToProIDPrefix, lastBlk.coreBlk.id)

\* C2: when commitBlk returns an error, whichever database call failed, the
\* primary cache has no entry for b.id and the inverse cache has no entry that
\* gives b.id for b.coreBlk.id.
CacheClearedOnCommitFailure ==
    (ret.op = "commitBlk" /\ ret.err # Nil)
        => /\ lastBlk.id \notin DOMAIN knownProBlocks
           /\ ~(/\ lastBlk.coreBlk.id \in DOMAIN wrpdToProID
                /\ wrpdToProID[lastBlk.coreBlk.id] = lastBlk.id)

\* C3: when commitBlk returns nil, cached beforehand or not, the inverse store
\* maps b.coreBlk.id to b.id, and getBlockFromWrappedBlkID(b.coreBlk.id) after
\* wipeCache returns a block whose id is b.id.
InverseStoreMapsInnerID ==
    (ret.op = "commitBlk" /\ ret.err = Nil)
        => /\ PrefixHas(State, wrpdToProIDPrefix, lastBlk.coreBlk.id)
           /\ CopyID(PrefixGet(State, wrpdToProIDPrefix, lastBlk.coreBlk.id)) = lastBlk.id
           /\ FromStore(getBlockFromWrappedBlkID(wipeCache(State), lastBlk.coreBlk.id),
                        lastBlk.id)

\* C4: once commitBlk has returned nil for a block, then after every later
\* sequence of calls getProBlock of its id succeeds and returns a block with
\* that id and with the bytes of the committed block.
CommittedBlockDurable ==
    \A c \in committed :
        LET same(r) == r.err = Nil /\ ~r.isNil /\ r.blk.id = c.id /\ r.blk.bytes = c.bytes
        IN  same(getProBlock(State, c.id))

\* C5: right after cacheProBlk(b), getProBlock(b.id) and
\* getBlockFromWrappedBlkID(b.coreBlk.id) both return b, and neither reads the
\* primary or the inverse store.
CacheCoherence ==
    ret.op = "cacheProBlk"
        => /\ FromCache(getProBlock(State, lastBlk.id), lastBlk)
           /\ FromCache(getBlockFromWrappedBlkID(State, lastBlk.coreBlk.id), lastBlk)

\* cacheProBlk(blkC) over the inverse entry that cacheProBlk(blkP) left for their
\* common inner block, while the stores are empty
CacheCoherenceWitness ==
    /\ ret.op = "cacheProBlk"
    /\ lastBlk = blkC
    /\ blkP.id \in DOMAIN knownProBlocks
    /\ db = EmptyMap

\* the parent of b was committed, with its envelope as bytes
ParentCommitted ==
    \E p \in committed : p.id = lastBlk.header.prntID /\ IsEnvelope(p)

-----------------------------------------------------------------------------
(* Properties of Verify, under SpecVerify *)

\* the parent as the store gives it: getProBlock of the parent's id
lastParent == getProBlock(State, lastBlk.header.prntID)

\* the signature of blk verifies, under its certificate, against the envelope of
\* blk with an empty signature
SignatureVerifies(blk) ==
    CheckSignature(blk.header.valCert, blk.header.valCert.SignatureAlgorithm,
                   getBytes([blk EXCEPT !.header.signature = <<>>]),
                   blk.header.signature) = Nil

\* the conditions of a valid block; p is the lookup of its parent
VerifyConditions(blk, env, p) ==
    /\ blk.header.version = 0
    /\ env.innerErr = Nil
    /\ p.err = Nil
    /\ p.blk.header.pChainHeight <= blk.header.pChainHeight
    /\ blk.header.pChainHeight <= env.pChainHeight
    /\ blk.header.timestamp >= p.blk.header.timestamp + env.delay
    /\ blk.header.timestamp <= env.now + 10
    /\ env.nodeIDOk
    /\ SignatureVerifies(blk)

\* C7: Verify returns nil exactly when the version is 0, the inner block verifies,
\* the parent is found, parent height <= height <= current height, timestamp >=
\* parent timestamp + delay, timestamp <= now + 10 s, a node id can be derived and
\* the signature verifies; both timestamp bounds are inclusive.
VerifySucceedsExactlyWhen ==
    ret.op = "Verify"
        => (ret.err = Nil <=> VerifyConditions(lastBlk, ret.env, lastParent))

\* Verify returned nil for a block whose timestamp is the start of its window,
\* 5 s after its parent
VerifyAtWindowStartWitness ==
    /\ ret.op = "Verify"
    /\ ret.err = Nil
    /\ ret.env.delay = 5
    /\ lastBlk.header.timestamp = lastParent.blk.header.timestamp + 5

\* the checks after the version check, in their order: TRUE where the check fails
FailingChecks(blk, env, p) ==
    << env.innerErr # Nil,
       p.err # Nil,
       blk.header.pChainHeight < p.blk.header.pChainHeight,
       blk.header.pChainHeight > env.pChainHeight,
       blk.header.timestamp < p.blk.header.timestamp,
       ~env.nodeIDOk,
       blk.header.timestamp < p.blk.header.timestamp + env.delay,
       blk.header.timestamp > env.now + 10,
       ~SignatureVerifies(blk) >>

\* the error of each of these checks
CheckErrors(env) ==
    << env.innerErr, ErrProBlkNotFound, ErrProBlkWrongHeight, ErrProBlkWrongHeight,
       ErrProBlkBadTimestamp, ErrInvalidNodeID, ErrProBlkBadTimestamp,
       ErrProBlkBadTimestamp, ErrInvalidSignature >>

\* the version check and these checks, by name
CheckOrder ==
    << "version", "coreBlk.Verify", "parent", "heightParent", "heightCurrent",
       "timestampParent", "nodeID", "windowStart", "tolerance", "signature" >>

\* the first check that fails, 0 when none does
FirstFailing(f) ==
    IF \E i \in 1..Len(f) : f[i]
    THEN CHOOSE i \in 1..Len(f) : f[i] /\ \A j \in 1..(i - 1) : ~f[j]
    ELSE 0

\* C8: Verify of a block of version 0 evaluates inner verification, parent lookup,
\* height against parent, height against current, timestamp against parent, node
\* id, timestamp against window start, timestamp against now + tolerance and
\* signature in this order; it returns the error of the first check that fails
\* and evaluates no check after it.
VerifyHaltsAtFirstFailure ==
    (ret.op = "Verify" /\ lastBlk.header.version = 0)
        => LET halts(k) ==
                   IF k = 0 THEN ret.err = Nil /\ ret.trace = CheckOrder
                   ELSE /\ ret.err = CheckErrors(ret.env)[k]
                        /\ ret.trace = SubSeq(CheckOrder, 1, k + 1)
           IN  halts(FirstFailing(FailingChecks(lastBlk, ret.env, lastParent)))

\* Verify of a block below its parent's height, before its parent's timestamp,
\* without node id and without signature: the height is the first to fail
VerifySeveralFailuresWitness ==
    /\ ret.op = "Verify"
    /\ lastBlk.header.version = 0
    /\ LET several(f) == ~f[1] /\ ~f[2] /\ f[3] /\ f[5] /\ f[6] /\ f[9]
       IN  several(FailingChecks(lastBlk, ret.env, lastParent))
    /\ ret.err = ErrProBlkWrongHeight

\* C9: Verify of a block whose version is not 0 fails with ErrProBlkFailedParsing,
\* the error of the envelope codec, and evaluates no other check.
VersionMismatchFailsParsing ==
    (ret.op = "Verify" /\ lastBlk.header.version # 0)
        => ret.err = ErrProBlkFailedParsing /\ ret.trace = <<"version">>

-----------------------------------------------------------------------------
(* Properties of NewProBlock, under SpecNew *)

\* C10: every block that NewProBlock returns, signing or not, bytes given or
\* not, has id = hash(bytes), and its bytes are the envelope of its header, final
\* signature included, and of its inner block's bytes whenever these encode.
IdentifierInvariant ==
    (ret.op = "NewProBlock" /\ ret.err = Nil)
        => /\ lastBlk.id = ComputeHash256Array(lastBlk.bytes)
           /\ LET encoded(m) == m.err = Nil => lastBlk.bytes = m.bytes
              IN  encoded(marshal([header |-> lastBlk.header,
                                   wrpdBytes |-> lastBlk.coreBlk.bytes]))

-----------------------------------------------------------------------------
(* Properties of signing and verification, under SpecSign *)

\* what is signed and verified: the envelope of blk with an empty signature
SignedContent(blk) == getBytes([blk EXCEPT !.header.signature = <<>>])

\* C11: when Verify reaches its signature check on a block that NewProBlock
\* signed with the staking key of the certificate in its header, it returns nil;
\* on a block that carries the signature of a signed block over another signed
\* content, it returns ErrInvalidSignature.
SignVerifyConsistency ==
    (ret.op = "Verify" /\ Len(ret.trace) = 10)
        => /\ (lastBlk \in SignedBlks /\ lastBlk.header.valCert = CertA)
                => ret.err = Nil
           /\ (\E sg \in SignedBlks :
                  /\ sg.header.valCert = CertA
                  /\ sg.header.signature = lastBlk.header.signature
                  /\ SignedContent(sg) # SignedContent(lastBlk))
                => ret.err = ErrInvalidSignature

\* Verify returned nil on a block that was signed, with the random source in
\* its second state, over a header that carried an earlier signature
SignVerifyWitness ==
    /\ ret.op = "Verify"
    /\ ret.err = Nil
    /\ lastBlk.header.signature[2] = 1
    /\ \E vm \in SignVMs, hdr \in SignHdrs :
          /\ hdr.signature # <<>>
          /\ lastBlk = NewProBlock(vm, hdr, lastBlk.coreBlk, NilBytes, TRUE).blk

-----------------------------------------------------------------------------
(* Properties of the envelope codec, under SpecCodec *)

\* C12: unmarshal of the envelope that marshal made of a well-formed header and
\* inner bytes succeeds, and gives back the version, parent id, timestamp
\* (negative ones too), height, certificate (the empty one too), signature and
\* inner bytes that were encoded.
EnvelopeRoundTrip ==
    ret.op = "unmarshal"
        => /\ ret.err = Nil
           /\ ret.res.header = ret.args.hdr
           /\ ret.res.bytes = ret.args.bytes

\* the round trip of a header with a negative timestamp and the empty
\* certificate of genesis
EnvelopeRoundTripWitness ==
    /\ ret.op = "unmarshal"
    /\ ret.err = Nil
    /\ ret.args.hdr.timestamp < 0
    /\ ret.args.hdr.valCert = EmptyCert
    /\ ret.args.bytes # <<>>

\* C13: when the inner block's Accept fails, Accept returns that same error and
\* leaves the primary cache and the inverse cache exactly as they were before
\* the call; in particular the parent is not evicted.
AcceptFailureLeavesCaches ==
    [][(ret'.op = "Accept" /\ ret'.env.innerErr # Nil)
          => /\ ret'.err = ret'.env.innerErr
             /\ knownProBlocks' = knownProBlocks
             /\ wrpdToProID' = wrpdToProID]_vars

\* a failed Accept of a block whose parent was cached, and still is
AcceptFailureWitness ==
    /\ ret.op = "Accept"
    /\ ret.env.innerErr # Nil
    /\ ret.err = ret.env.innerErr
    /\ ret.pre.cached
    /\ lastBlk.header.prntID \in DOMAIN knownProBlocks
    /\ knownProBlocks[lastBlk.header.prntID].coreBlk.id \in DOMAIN wrpdToProID

\* what a successful Reject of blk leaves alone: every other cached block, every
\* inverse entry under another inner id, and both persistent stores
RejectFrame(blk) ==
    /\ DOMAIN knownProBlocks' = DOMAIN knownProBlocks \ {blk.id}
    /\ \A id \in DOMAIN knownProBlocks' : knownProBlocks'[id] = knownProBlocks[id]
    /\ \A w \in DOMAIN wrpdToProID \ {blk.coreBlk.id} :
           w \in DOMAIN wrpdToProID' /\ wrpdToProID'[w] = wrpdToProID[w]
    /\ db' = db
    /\ baseDB' = baseDB

\* when the inner block's Reject fails, the error is returned and the caches stay
RejectFailure ==
    /\ ret'.err = ret'.env.innerErr
    /\ knownProBlocks' = knownProBlocks
    /\ wrpdToProID' = wrpdToProID

StoresAppendOnly ==
    [][\A k \in DOMAIN db :
          /\ k \in DOMAIN db'
          /\ k.prefix = blockPrefix => db'[k] = db[k]]_vars

\* a block is committed again over its own entry, after another block's entry
\* was written, and both entries are in the primary store
StoresAppendOnlyWitness ==
    /\ ret.op = "commitBlk"
    /\ ret.err = Nil
    /\ ret.pre.inBlkDB
    /\ ret.pre.inWrpdDB
    /\ \E o \in StoreBlks : o.id # lastBlk.id /\ PrefixHas(State, blockPrefix, o.id)
    /\ PrefixGet(State, blockPrefix, lastBlk.id) = lastBlk.bytes

\* C16: Accepted and Rejected are terminal.  Once the Status() of a decorated block
\* is Accepted or Rejected, no later call of the layer (a second Accept or Reject,
\* an eviction, a read from the store) moves the block to another status.
StatusTerminal ==
    [][\A b \in StoreBlks :
          Status(status, b) \in {Accepted, Rejected}
              => Status(status', b) = Status(status, b)]_vars

\* C17: Parent never fails.  It returns the decorated parent whenever getProBlock
\* of header.prntID succeeds, from the cache or from the store, and for every
\* failure of that lookup (not found, bytes that do not decode) it returns a
\* missing.Block whose ID() is header.prntID.
ParentNeverFails ==
    [][ret'.op = "Parent"
          => IF getProBlock(State, ret'.blk.header.prntID).err = Nil
             THEN /\ ~ret'.isNil
                  /\ ret'.res = getProBlock(State, ret'.blk.header.prntID).blk
                  /\ ret'.id = ret'.res.id
             ELSE /\ ret'.isNil
                  /\ ret'.id = ret'.blk.header.prntID]_vars

\* the parent's entry is in the primary store but does not decode, and Parent
\* answers with a missing.Block of the parent's id
ParentMissingWitness ==
    /\ ret.op = "Parent"
    /\ ret.isNil
    /\ ret.pre.inBlkDB
    /\ ~ret.pre.cached
    /\ ret.id = lastBlk.header.prntID

\* the parent is read from the primary store and returned
ParentFromStoreReached ==
    /\ ret.op = "Parent"
    /\ ~ret.isNil
    /\ ret.pre.inBlkDB
    /\ ~ret.pre.cached
    /\ ret.res.id = lastBlk.header.prntID

\* C18: every entry of the inverse cache maps an inner id to the id of a block
\* that is in the primary cache and wraps that inner id; and
\* getBlockFromWrappedBlkID never returns a nil block together with a nil error.
InverseCacheSound ==
    /\ \A w \in DOMAIN wrpdToProID :
          /\ wrpdToProID[w] \in DOMAIN knownProBlocks
          /\ knownProBlocks[wrpdToProID[w]].coreBlk.id = w
    /\ (ret.op = "getBlockFromWrappedBlkID" /\ ret.err = Nil) => ~ret.isNil

\* C19: after any sequence of cacheProBlk and wipeFromCacheProBlk, every block in
\* the primary cache has an entry in the inverse cache under its inner id, also
\* when two blocks wrap one inner block; and evicting a block does not remove an
\* inverse entry that points to another cached block.
EveryCachedBlockIndexed ==
    /\ [](\A id \in DOMAIN knownProBlocks :
             knownProBlocks[id].coreBlk.id \in DOMAIN wrpdToProID)
    /\ [][ret'.op = "wipeFromCacheProBlk"
             => \A w \in DOMAIN wrpdToProID :
                   (wrpdToProID[w] # ret'.id /\ wrpdToProID[w] \in DOMAIN knownProBlocks)
                       => w \in DOMAIN wrpdToProID']_vars

\* C20: whenever getProBlock(id) succeeds, from the cache or from the store, the
\* block returned has the id asked for; whenever getBlockFromWrappedBlkID(w)
\* succeeds, the block returned wraps the inner block w.
LookupReturnsWhatWasAsked ==
    /\ (ret.op = "getProBlock" /\ ret.err = Nil)
          => (~ret.isNil /\ ret.res.id = ret.id)
    /\ (ret.op = "getBlockFromWrappedBlkID" /\ ret.err = Nil)
          => (~ret.isNil /\ ret.res.coreBlk.id = ret.id)

====
